---- MODULE Spec2Model ----
(***************************************************************************)
(* Model of the research orchestration core of src/app.py:                 *)
(*   LMStudioLLM._call        - completion client with retries and backoff *)
(*   TavilySearchTool._run    - one search request and its formatting      *)
(*   ResearchGraph            - planner stage, searcher stage, the static  *)
(*                              two-node graph and the research_topic      *)
(*                              facade                                     *)
(* Python strings are TLA+ strings; substring tests, lower() and slicing   *)
(* are computed character by character.  An Optional value is a sequence   *)
(* of at most one element (None is the empty sequence).                    *)
(***************************************************************************)
EXTENDS Integers, Sequences, FiniteSets, TLC

(***************************************************************************)
(* Python string primitives                                                *)
(***************************************************************************)
\* `m in s` for strings
Contains(s, m) ==
    \E k \in 1..(Len(s) - Len(m) + 1) : SubSeq(s, k, k + Len(m) - 1) = m

\* one character of str.lower() (the upper-case letters the inputs use)
LowerChar(c) ==
    CASE c = "A" -> "a" [] c = "B" -> "b" [] c = "C" -> "c" [] c = "D" -> "d"
      [] c = "E" -> "e" [] c = "F" -> "f" [] c = "G" -> "g" [] c = "H" -> "h"
      [] c = "I" -> "i" [] c = "J" -> "j" [] c = "K" -> "k" [] c = "L" -> "l"
      [] c = "M" -> "m" [] c = "N" -> "n" [] c = "O" -> "o" [] c = "P" -> "p"
      [] c = "Q" -> "q" [] c = "R" -> "r" [] c = "S" -> "s" [] c = "T" -> "t"
      [] c = "U" -> "u" [] c = "V" -> "v" [] c = "W" -> "w" [] c = "X" -> "x"
      [] c = "Y" -> "y" [] c = "Z" -> "z" [] OTHER -> c

\* s[k:].lower(), k counted from 1
RECURSIVE LowerFrom(_, _)
LowerFrom(s, k) ==
    IF k > Len(s) THEN ""
    ELSE LowerChar(SubSeq(s, k, k)) \o LowerFrom(s, k + 1)

\* str.lower()
Lower(s) == LowerFrom(s, 1)

\* `m in s.lower()`; lower() works character by character, so each window
\* of s is lowered and compared
ContainsLowered(s, m) ==
    \E k \in 1..(Len(s) - Len(m) + 1) :
        Lower(SubSeq(s, k, k + Len(m) - 1)) = m

\* s[:n]
Slice(s, n) == SubSeq(s, 1, IF Len(s) < n THEN Len(s) ELSE n)

\* 2 ** n
RECURSIVE Pow2(_)
Pow2(n) == IF n = 0 THEN 1 ELSE 2 * Pow2(n - 1)

\* "\n".join(parts)
RECURSIVE JoinLines(_)
JoinLines(parts) ==
    IF Len(parts) = 0 THEN ""
    ELSE IF Len(parts) = 1 THEN parts[1]
    ELSE parts[1] \o "\n" \o JoinLines(Tail(parts))

\* Optional[str]
None == << >>
Some(s) == << s >>

\* outcome of a Python call: a returned value or a raised exception
Return(v) == [kind |-> "return", exc |-> "", value |-> v]
Raise(cls, msg) == [kind |-> "raise", exc |-> cls, value |-> msg]
NoResult == [kind |-> "none", exc |-> "", value |-> ""]

(***************************************************************************)
(* What the two HTTP services can answer to one request                    *)
(***************************************************************************)
\* an HTTP response: status, response.text and the value of response.json()
Response(status, text, json) ==
    [kind |-> "response", status |-> status, text |-> text, json |-> json,
     exc |-> "", msg |-> ""]
\* requests.post raising a subclass of requests.exceptions.RequestException
Failure(cls, msg) ==
    [kind |-> "exception", status |-> 0, text |-> "", json |-> [none |-> TRUE],
     exc |-> cls, msg |-> msg]

\* message texts a completion can carry
Contents ==
    { "1. Ask what is known. 2. Read primary sources.",
      "",
      "Error: the topic is ambiguous",
      "Plan: stop when the crawl has Timed Out" }

ChatBody(content) == [choices |-> << [message |-> [content |-> content]] >>]

LLMResponses ==
    { Response(200, "ok", ChatBody(c)) : c \in Contents }
    \cup
    { Response(200, "{}", [error |-> "model not loaded"]),
      Response(200, "{\"choices\": []}", [choices |-> << >>]),
      Response(500, "Internal Server Error", [none |-> TRUE]),
      Response(404, "", [none |-> TRUE]),
      Failure("Timeout", "Read timed out. (read timeout=180)"),
      Failure("ConnectionError", "Connection refused"),
      Failure("RequestException", "Exceeded 30 redirects."),
      Failure("RequestException", "Invalid URL: Error: no host supplied") }

(***************************************************************************)
(* LMStudioLLM                                                             *)
(***************************************************************************)
\* LMStudioLLM.max_retries default
MaxRetries == 3
\* timeout ResearchGraph.__init__ passes to LMStudioLLM
GraphTimeout == 180

\* result["choices"][0]["message"]["content"]
ExtractContent(json) ==
    IF "choices" \notin DOMAIN json THEN Raise("KeyError", "'choices'")
    ELSE IF Len(json.choices) = 0
         THEN Raise("IndexError", "list index out of range")
    ELSE IF "message" \notin DOMAIN json.choices[1]
         THEN Raise("KeyError", "'message'")
    ELSE IF "content" \notin DOMAIN json.choices[1].message
         THEN Raise("KeyError", "'content'")
    ELSE Return(json.choices[1].message.content)

\* the string a failed last attempt returns, by failure category
LastAttemptError(self, r) ==
    IF r.kind = "response"
    THEN "Error: " \o ToString(r.status) \o " - " \o r.text
    ELSE IF r.exc = "Timeout"
    THEN "Error: Request timed out after " \o ToString(self.timeout)
         \o " seconds. Please check if LM Studio is running and responsive."
    ELSE IF r.exc = "ConnectionError"
    THEN "Error: Cannot connect to LM Studio at " \o self.base_url
         \o ". Please ensure LM Studio is running."
    ELSE "Error connecting to LM Studio: " \o r.msg

\* whether the loop body reaches the backoff statement after this failure:
\* the non-200 branch leaves the iteration with `continue`
ReachesBackoff(r) == r.kind = "exception"

\* the loop body with no return in the failure branches of the last attempt
CallIteration_NoReturnOnLast(self, att, r) ==
    IF r.kind = "response" /\ r.status = 200
    THEN [result |-> ExtractContent(r.json), slept |-> << >>]
    ELSE [result |-> NoResult,
          slept |-> IF ReachesBackoff(r) /\ att < self.max_retries - 1
                    THEN << Pow2(att) >> ELSE << >>]

\* one iteration of the retry loop of _call, given the answer r to its
\* request: the outcome of the call (NoResult while the loop goes on) and the
\* sleeps of this iteration
CallIteration(self, att, r) ==
    IF r.kind = "response" /\ r.status = 200
    THEN [result |-> ExtractContent(r.json), slept |-> << >>]
    ELSE IF att = self.max_retries - 1
    THEN [result |-> Return(LastAttemptError(self, r)), slept |-> << >>]
    ELSE [result |-> NoResult,
          slept |-> IF ReachesBackoff(r) /\ att < self.max_retries - 1
                    THEN << Pow2(att) >> ELSE << >>]

\* the loop range with one index too many
InRange_OneTooMany(att, max_retries) == att <= max_retries

\* `attempt in range(self.max_retries)`
InRange(att, max_retries) == att < max_retries

\* the statement after the loop
AllFailed == "Error: All retry attempts failed"

(***************************************************************************)
(* TavilySearchTool                                                        *)
(***************************************************************************)
\* length of the content snippet kept for each source
SnippetLen == 300

\* dict.get(key, default)
Get(d, key, default) == IF key \in DOMAIN d THEN d[key] ELSE default

RECURSIVE Repeat(_, _)
Repeat(s, n) == IF n = 0 THEN "" ELSE s \o Repeat(s, n - 1)

\* a content text longer than the snippet
LongContent == Repeat("Qubits decohere; codes protect them. ", 9)

Sources ==
    << [title |-> "Surface codes", url |-> "https://example.org/a",
        content |-> "Short note."],
       [url |-> "https://example.org/b", content |-> LongContent] >>

SearchResponses ==
    { Response(200, "ok", [answer |-> "Logical qubits exist.", results |-> Sources]),
      Response(200, "ok", [results |-> << >>]),
      Response(200, "[]", [array |-> << >>]),
      Response(401, "Unauthorized: invalid API key", [none |-> TRUE]),
      Failure("ConnectionError", "Connection refused") }

\* the block _run appends for the n-th source
SourceBlock(n, source) ==
    "\n**" \o ToString(n) \o ". " \o Get(source, "title", "Untitled Source")
    \o "**\n- **URL:** " \o Get(source, "url", "#")
    \o "\n- **Content:** "
    \o Slice(Get(source, "content", "No content available"), SnippetLen)
    \o "...\n\n---\n"

RECURSIVE SourceBlocks(_, _)
SourceBlocks(sources, n) ==
    IF n > Len(sources) THEN ""
    ELSE SourceBlock(n, sources[n]) \o SourceBlocks(sources, n + 1)

\* the report _run builds from the body of a 200 response
FormattedOutput(query, data) ==
    "\n## Search Results for: \"" \o query \o "\"\n\n### Summary\n"
    \o Get(data, "answer", "No summary available")
    \o "\n\n### Sources\n"
    \o SourceBlocks(Get(data, "results", << >>), 1)

\* TavilySearchTool._run, given the answer r to its request
TavilyRun(query, r) ==
    IF r.kind = "exception"
    THEN Return("Search Error: " \o r.msg)
    ELSE IF r.status = 200
    THEN IF "array" \in DOMAIN r.json
         THEN Raise("AttributeError", "'list' object has no attribute 'get'")
         ELSE Return(FormattedOutput(query, r.json))
    ELSE Return("Tavily API Error: " \o ToString(r.status) \o " - " \o r.text)

(***************************************************************************)
(* ResearchState and the stages of ResearchGraph                           *)
(***************************************************************************)
HumanMessage(content) == [role |-> "human", content |-> content]
AIMessage(content) == [role |-> "ai", content |-> content]

\* the prompt the planner sends
PlannerPrompt(topic) ==
    "\n        As a research methodology expert, create a detailed research plan to investigate this topic: \""
    \o topic \o "\"\n\n        Your plan should include:\n"
    \o "        1. Key questions that need to be answered\n"
    \o "        2. Types of sources to prioritize (academic, news, official, etc.)\n"
    \o "        3. Multiple search strategies and keyword variations\n"
    \o "        4. Red flags or potential biases to watch for\n"
    \o "        5. Verification methods and fact-checking approaches\n\n"
    \o "        Make the plan specific, actionable, and thorough for this particular topic.\n        "

\* the planner's error-marker test on the text the client returned
HasErrorMarker(text) ==
    Contains(text, "Error:") \/ ContainsLowered(text, "timed out")

\* the template the planner substitutes for an error-marked text
FallbackPlan(topic) ==
    "\n## Research Plan for: " \o topic \o "\n\n"
    \o "### Key Questions\n"
    \o "- What is the current status of this topic?\n"
    \o "- What evidence supports or contradicts this claim?\n"
    \o "- What do authoritative sources say?\n\n"
    \o "### Search Strategy\n"
    \o "- Direct topic search\n"
    \o "- Evidence-based search\n"
    \o "- Expert opinion search\n"
    \o "- Recent news search\n\n"
    \o "### Source Prioritization\n"
    \o "- Official sources first\n"
    \o "- Peer-reviewed content\n"
    \o "- Reputable news outlets\n"
    \o "- Expert commentary\n\n"
    \o "### Verification Methods\n"
    \o "- Cross-reference multiple sources\n"
    \o "- Check publication dates\n"
    \o "- Verify author credentials\n"
    \o "- Look for consensus\n                "

\* the value the planner's exception handler writes
BasicPlan(topic) ==
    "Basic research plan for: " \o topic
    \o " (Error occurred in detailed planning)"

\* the planner with a handler that records the error and writes no plan
PlannerNode_NoPlanInHandler(st, call) ==
    IF call.kind = "return"
    THEN [st EXCEPT
            !.research_plan = IF HasErrorMarker(call.value)
                              THEN FallbackPlan(st.topic) ELSE call.value,
            !.messages = Append(@, AIMessage("Research plan created for: "
                                             \o st.topic)),
            !.next_step = "web_searcher"]
    ELSE [st EXCEPT
            !.error = Some("Error in research planning: " \o call.value)]

\* _research_planner_node after self.llm(prompt) has returned or raised:
\* the state the stage returns
PlannerNode(st, call) ==
    IF call.kind = "return"
    THEN [st EXCEPT
            !.research_plan = IF HasErrorMarker(call.value)
                              THEN FallbackPlan(st.topic) ELSE call.value,
            !.messages = Append(@, AIMessage("Research plan created for: "
                                             \o st.topic)),
            !.next_step = "web_searcher"]
    ELSE [st EXCEPT
            !.error = Some("Error in research planning: " \o call.value),
            !.research_plan = BasicPlan(st.topic)]

\* the query variants with two of them exchanged
SearchQueries_Exchanged(topic) ==
    << topic,
       topic \o " expert analysis",
       topic \o " facts evidence 2024",
       topic \o " recent research findings" >>

\* the query variants of the searcher
SearchQueries(topic) ==
    << topic,
       topic \o " facts evidence 2024",
       topic \o " expert analysis",
       topic \o " recent research findings" >>

\* the entry the searcher's loop body appends for query number n (1-based),
\* given what _run did
SearchSection(n, query, run) ==
    IF run.kind = "return"
    THEN "### Search Query " \o ToString(n) \o ": '" \o query \o "'\n"
         \o run.value \o "\n"
    ELSE "**Search " \o ToString(n) \o "** for '" \o query \o "' failed: "
         \o run.value

\* whether the loop body counts the query as successful
CountsAsSuccess(run) == run.kind = "return" /\ ~Contains(run.value, "Error:")

\* the searcher resetting error when its block ran through
SearcherNode_ClearsError(st, results, successful, caught) ==
    IF caught = None
    THEN [st EXCEPT
            !.search_results = JoinLines(results),
            !.messages = Append(@, AIMessage(
                "Completed " \o ToString(Len(SearchQueries(st.topic)))
                \o " searches (" \o ToString(successful)
                \o " successful) for: " \o st.topic)),
            !.next_step = "complete",
            !.error = None]
    ELSE [st EXCEPT
            !.error = Some("Error in web searching: " \o caught[1]),
            !.search_results = "Error occurred during search phase for: "
                               \o st.topic]

\* the searcher putting its summary line in front of the plan
SearcherNode_RewritesPlan(st, results, successful, caught) ==
    IF caught = None
    THEN [st EXCEPT
            !.search_results = JoinLines(results),
            !.research_plan = "Searches done: " \o ToString(successful)
                              \o "\n" \o @,
            !.messages = Append(@, AIMessage(
                "Completed " \o ToString(Len(SearchQueries(st.topic)))
                \o " searches (" \o ToString(successful)
                \o " successful) for: " \o st.topic)),
            !.next_step = "complete"]
    ELSE [st EXCEPT
            !.error = Some("Error in web searching: " \o caught[1]),
            !.search_results = "Error occurred during search phase for: "
                               \o st.topic]

\* _web_searcher_node after its loop: the state the stage returns.  caught
\* is the exception the stage-level handler received (None when the block
\* ran through)
SearcherNode(st, results, successful, caught) ==
    IF caught = None
    THEN [st EXCEPT
            !.search_results = JoinLines(results),
            !.messages = Append(@, AIMessage(
                "Completed " \o ToString(Len(SearchQueries(st.topic)))
                \o " searches (" \o ToString(successful)
                \o " successful) for: " \o st.topic)),
            !.next_step = "complete"]
    ELSE [st EXCEPT
            !.error = Some("Error in web searching: " \o caught[1]),
            !.search_results = "Error occurred during search phase for: "
                               \o st.topic]

(***************************************************************************)
(* Inputs                                                                  *)
(***************************************************************************)
Topics == { "quantum error correction", "", "Error: 404 on login" }

\* arguments of ResearchGraph(tavily_api_key, lm_studio_url, model_name);
\* an argument is an Optional (None when the caller has no value for it)
ConstructorArgs ==
    { [tavily_api_key |-> Some("tvly-123"),
       lm_studio_url |-> Some("http://127.0.0.1:1234/v1"),
       model_name |-> Some("google/gemma-3-1b")],
      [tavily_api_key |-> Some("tvly-123"),
       lm_studio_url |-> None,
       model_name |-> Some("google/gemma-3-1b")] }

\* prompts of a direct call of the client
Prompts == { "", "Say 'Hello'" }

\* largest max_retries a directly constructed client is given
MaxRetriesBound == 3

(***************************************************************************)
(* State                                                                   *)
(***************************************************************************)
VARIABLES
    pc,             \* position of the caller's thread
    llm,            \* Optional: the LMStudioLLM object (its fields)
    search_tool,    \* Optional: the TavilySearchTool object
    aliased,        \* the graph runtime hands a stage the stored messages
                    \* list itself (TRUE) or a copy of it (FALSE)
    state,          \* Optional: the ResearchState held by the graph
    stages,         \* stage executions so far, in order
    caller,         \* who is inside LMStudioLLM._call
    prompt,         \* _call: the prompt argument
    attempt,        \* _call: loop variable
    posted,         \* _call: prompts posted to /chat/completions, in order
    sleeps,         \* _call: arguments of time.sleep, in order
    llm_result,     \* what _call returned or raised
    last_response,  \* Optional: the endpoint's answer to the latest request
    search_queries, \* searcher: the query list
    idx,            \* searcher: number of loop iterations done
    issued,         \* searcher: calls of search_tool._run, in order
    all_results,    \* searcher: all_results
    successful_searches, \* searcher: successful_searches
    result,         \* Optional: what research_topic returned
    health,         \* Optional: the results dict of test_connections
    runs            \* concurrent research_topic calls on one ResearchGraph

vars == << pc, llm, search_tool, aliased, state, stages, caller, prompt,
           attempt, posted, sleeps, llm_result, last_response,
           search_queries, idx, issued, all_results, successful_searches, result,
           health, runs >>

callVars == << caller, prompt, attempt, posted, sleeps, llm_result,
              last_response >>
searchVars == << search_queries, idx, issued, all_results,
                 successful_searches >>
otherVars == << health, runs >>

St == state[1]
Self == llm[1]

\* pydantic's check of a field declared `str`
IsStr(arg) == arg # None

\* the fields LMStudioLLM(base_url=..., model=..., timeout=...) ends up with
NewLLM(base_url, model, timeout, max_retries) ==
    [base_url |-> base_url, model |-> model, temperature |-> "0.7",
     max_tokens |-> 2000, timeout |-> timeout, max_retries |-> max_retries]

\* the ResearchState research_topic builds
InitialState(topic) ==
    [topic |-> topic, research_plan |-> "", search_results |-> "",
     analysis |-> "", final_report |-> "",
     messages |-> << HumanMessage("Research topic: " \o topic) >>,
     next_step |-> "research_planner", error |-> None]

\* the graph of _build_graph
EntryPoint == "research_planner"
\* the edges with the planner wired to the end
NextNode_PlannerToEnd(node) ==
    CASE node = "research_planner" -> "END"
      [] node = "web_searcher" -> "END"
NextNode(node) ==
    CASE node = "research_planner" -> "web_searcher"
      [] node = "web_searcher" -> "END"

\* operator.add on two lists
Add(a, b) == a \o b

\* the graph merging the state a stage returned into the state it holds:
\* every field takes the returned value, messages goes through its reducer.
\* The stage appended to the list it was handed; when that list is the
\* stored one, the stored value already carries the appended entry.
ApplyWrites(held, returned) ==
    [returned EXCEPT
        !.messages = Add(IF aliased THEN returned.messages ELSE held.messages,
                         returned.messages)]

Init ==
    /\ pc = "start"
    /\ llm = None
    /\ search_tool = None
    /\ aliased \in BOOLEAN
    /\ state = None
    /\ stages = << >>
    /\ caller = "none"
    /\ prompt = ""
    /\ attempt = 0
    /\ posted = << >>
    /\ sleeps = << >>
    /\ llm_result = NoResult
    /\ last_response = None
    /\ search_queries = << >>
    /\ idx = 0
    /\ issued = << >>
    /\ all_results = << >>
    /\ successful_searches = 0
    /\ result = None
    /\ health = None
    /\ runs = << >>

(***************************************************************************)
(* Actions                                                                 *)
(***************************************************************************)
\* ResearchGraph.__init__: no handler around the constructors, so a rejected
\* argument leaves through the caller
Construct(args) ==
    /\ pc = "start"
    /\ IF IsStr(args.lm_studio_url) /\ IsStr(args.model_name)
       THEN /\ llm' = Some(NewLLM(args.lm_studio_url[1], args.model_name[1],
                                  GraphTimeout, MaxRetries))
            /\ search_tool' = Some([api_key |-> args.tavily_api_key[1]])
            /\ pc' = "constructed"
       ELSE /\ pc' = "construct_raised"
            /\ UNCHANGED << llm, search_tool >>
    /\ UNCHANGED << aliased, state, stages, result >>
    /\ UNCHANGED callVars
    /\ UNCHANGED searchVars
    /\ UNCHANGED otherVars

\* research_topic up to the point where graph.invoke enters the first node
ResearchTopic(topic) ==
    /\ pc = "constructed"
    /\ state' = Some(InitialState(topic))
    /\ pc' = EntryPoint
    /\ UNCHANGED << llm, search_tool, aliased, stages, result >>
    /\ UNCHANGED callVars
    /\ UNCHANGED searchVars
    /\ UNCHANGED otherVars

\* _research_planner_node up to self.llm(prompt)
PlannerBegin ==
    /\ pc = "research_planner"
    /\ stages' = Append(stages, "research_planner")
    /\ caller' = "planner"
    /\ prompt' = PlannerPrompt(St.topic)
    /\ attempt' = 0
    /\ posted' = << >>
    /\ sleeps' = << >>
    /\ llm_result' = NoResult
    /\ last_response' = None
    /\ pc' = "llm_call"
    /\ UNCHANGED << llm, search_tool, aliased, state, result >>
    /\ UNCHANGED searchVars
    /\ UNCHANGED otherVars

\* LMStudioLLM._call: one iteration of the retry loop; r is what the
\* endpoint does with this request
LLMAttempt(r) ==
    /\ pc = "llm_call"
    /\ InRange(attempt, Self.max_retries)
    /\ LET it == CallIteration(Self, attempt, r) IN
         /\ posted' = Append(posted, prompt)
         /\ sleeps' = sleeps \o it.slept
         /\ llm_result' = it.result
         /\ last_response' = Some(r)
         /\ attempt' = IF it.result = NoResult THEN attempt + 1 ELSE attempt
         /\ pc' = IF it.result = NoResult THEN "llm_call" ELSE "llm_done"
    /\ UNCHANGED << llm, search_tool, aliased, state, stages, caller, prompt,
                    result >>
    /\ UNCHANGED searchVars
    /\ UNCHANGED otherVars

\* LMStudioLLM._call: the loop ended without a return
LLMExhausted ==
    /\ pc = "llm_call"
    /\ ~InRange(attempt, Self.max_retries)
    /\ llm_result' = Return(AllFailed)
    /\ pc' = "llm_done"
    /\ UNCHANGED << llm, search_tool, aliased, state, stages, caller, prompt,
                    attempt, posted, sleeps, last_response, result >>
    /\ UNCHANGED searchVars
    /\ UNCHANGED otherVars

\* _research_planner_node from the return of self.llm(prompt) to the end,
\* and the graph taking the returned state and following the edge
PlannerFinish ==
    /\ pc = "llm_done"
    /\ caller = "planner"
    /\ state' = Some(ApplyWrites(St, PlannerNode(St, llm_result)))
    /\ pc' = NextNode("research_planner")
    /\ caller' = "none"
    /\ prompt' = ""
    /\ attempt' = 0
    /\ posted' = << >>
    /\ sleeps' = << >>
    /\ UNCHANGED << llm, search_tool, aliased, stages, llm_result,
                    last_response, result >>
    /\ UNCHANGED searchVars
    /\ UNCHANGED otherVars

\* _web_searcher_node up to its loop
SearcherBegin ==
    /\ pc = "web_searcher"
    /\ stages' = Append(stages, "web_searcher")
    /\ search_queries' = SearchQueries(St.topic)
    /\ idx' = 0
    /\ issued' = << >>
    /\ all_results' = << >>
    /\ successful_searches' = 0
    /\ pc' = "searching"
    /\ UNCHANGED << llm, search_tool, aliased, state, result >>
    /\ UNCHANGED callVars
    /\ UNCHANGED otherVars

\* _web_searcher_node: one iteration of the loop over the queries; r is what
\* the search provider does with this request
SearchQuery(r) ==
    /\ pc = "searching"
    /\ idx < Len(search_queries)
    /\ LET query == search_queries[idx + 1]
           run == TavilyRun(query, r)
       IN /\ issued' = Append(issued,
                 [query |-> query,
                  formatted |-> r.kind = "response" /\ r.status = 200
                                /\ run.kind = "return"])
          /\ all_results' = Append(all_results,
                                   SearchSection(idx + 1, query, run))
          /\ successful_searches' =
                 IF CountsAsSuccess(run) THEN successful_searches + 1
                 ELSE successful_searches
    /\ idx' = idx + 1
    /\ UNCHANGED << pc, llm, search_tool, aliased, state, stages, result,
                    search_queries >>
    /\ UNCHANGED callVars
    /\ UNCHANGED otherVars

\* _web_searcher_node after its loop, and the graph taking the returned
\* state and following the edge.  Every exception of a query is taken by the
\* handler inside the loop and the statements after the loop cannot raise, so
\* the stage-level handler receives nothing.
SearcherFinish ==
    /\ pc = "searching"
    /\ idx = Len(search_queries)
    /\ state' = Some(ApplyWrites(St, SearcherNode(St, all_results,
                                                  successful_searches, None)))
    /\ pc' = NextNode("web_searcher")
    /\ UNCHANGED << llm, search_tool, aliased, stages, result >>
    /\ UNCHANGED callVars
    /\ UNCHANGED searchVars
    /\ UNCHANGED otherVars

\* the text research_topic's handler puts in both fields
WorkflowError == "Error occurred during workflow execution"

\* research_topic: graph.invoke returned the final state (the stages take
\* every exception themselves, so graph.invoke does not raise)
ReturnResult ==
    /\ pc = "END"
    /\ result' = Some([research_plan |-> St.research_plan,
                       search_results |-> St.search_results,
                       error |-> St.error])
    /\ pc' = "returned"
    /\ UNCHANGED << llm, search_tool, aliased, state, stages >>
    /\ UNCHANGED callVars
    /\ UNCHANGED searchVars
    /\ UNCHANGED otherVars

Next ==
    \/ \E args \in ConstructorArgs : Construct(args)
    \/ \E topic \in Topics : ResearchTopic(topic)
    \/ PlannerBegin
    \/ \E r \in LLMResponses : LLMAttempt(r)
    \/ PlannerFinish
    \/ SearcherBegin
    \/ \E r \in SearchResponses : SearchQuery(r)
    \/ SearcherFinish
    \/ ReturnResult

Spec == Init /\ [][Next]_vars

\* the caller's thread keeps running until research_topic has returned
FairSpec == Spec /\ WF_vars(Next)

(***************************************************************************)
(* The completion client called on its own: LMStudioLLM(...)(prompt)       *)
(***************************************************************************)
CallInit ==
    /\ pc = "llm_call"
    /\ \E m \in 0..MaxRetriesBound :
          llm = Some(NewLLM("http://localhost:1234/v1",
                            "microsoft/Phi-4-mini-reasoning", GraphTimeout, m))
    /\ search_tool = None
    /\ aliased = FALSE
    /\ state = None
    /\ stages = << >>
    /\ caller = "direct"
    /\ prompt \in Prompts
    /\ attempt = 0
    /\ posted = << >>
    /\ sleeps = << >>
    /\ llm_result = NoResult
    /\ last_response = None
    /\ search_queries = << >>
    /\ idx = 0
    /\ issued = << >>
    /\ all_results = << >>
    /\ successful_searches = 0
    /\ result = None
    /\ health = None
    /\ runs = << >>

CallNext ==
    \/ \E r \in LLMResponses : LLMAttempt(r)
    \/ LLMExhausted

CallSpec == CallInit /\ [][CallNext]_vars

(***************************************************************************)
(* test_connections(tavily_key, lm_studio_url, model_name)                 *)
(***************************************************************************)
\* timeout test_connections passes to LMStudioLLM
ProbeTimeout == 30

\* keys the caller can pass; the empty key skips the search probe
ProbeKeys == { "", "tvly-123" }

\* the flag test_connections derives from the search probe
TavilyFlag(run) == run.kind = "return" /\ ~Contains(run.value, "Error:")

\* the flag test_connections derives from the completion probe
LMStudioFlag(call) ==
    /\ call.kind = "return"
    /\ ~Contains(call.value, "Error:")
    /\ ~ContainsLowered(call.value, "timed out")

ProbeInit ==
    /\ pc = "probe_start"
    /\ llm = None
    /\ search_tool = None
    /\ aliased = FALSE
    /\ state = None
    /\ stages = << >>
    /\ caller = "none"
    /\ prompt = ""
    /\ attempt = 0
    /\ posted = << >>
    /\ sleeps = << >>
    /\ llm_result = NoResult
    /\ last_response = None
    /\ search_queries = << >>
    /\ idx = 0
    /\ issued = << >>
    /\ all_results = << >>
    /\ successful_searches = 0
    /\ result = None
    /\ health = Some([tavily |-> FALSE, lm_studio |-> FALSE])
    /\ runs = << >>

\* test_connections: the search probe; r is what the provider does with the
\* request, which is made only for a non-empty key
ProbeTavily(tavily_key, r) ==
    /\ pc = "probe_start"
    /\ IF tavily_key # ""
       THEN LET run == TavilyRun("hello world test", r) IN
              /\ search_tool' = Some([api_key |-> tavily_key])
              /\ issued' = << [query |-> "hello world test",
                               formatted |-> r.kind = "response"
                                             /\ r.status = 200
                                             /\ run.kind = "return"] >>
              /\ health' = Some([health[1] EXCEPT !.tavily = TavilyFlag(run)])
       ELSE UNCHANGED << search_tool, issued, health >>
    /\ pc' = "probe_llm"
    /\ UNCHANGED << llm, aliased, state, stages, result, runs, search_queries,
                    idx, all_results, successful_searches >>
    /\ UNCHANGED callVars

\* test_connections: the client is constructed and called; a rejected
\* argument goes to the bare except
ProbeLLMBegin(lm_studio_url, model_name) ==
    /\ pc = "probe_llm"
    /\ IF IsStr(lm_studio_url) /\ IsStr(model_name)
       THEN /\ llm' = Some(NewLLM(lm_studio_url[1], model_name[1],
                                  ProbeTimeout, MaxRetries))
            /\ caller' = "probe"
            /\ prompt' = "Say 'Hello'"
            /\ attempt' = 0
            /\ posted' = << >>
            /\ sleeps' = << >>
            /\ llm_result' = NoResult
            /\ last_response' = None
            /\ pc' = "llm_call"
            /\ UNCHANGED health
       ELSE /\ health' = Some([health[1] EXCEPT !.lm_studio = FALSE])
            /\ pc' = "probe_done"
            /\ UNCHANGED llm
            /\ UNCHANGED callVars
    /\ UNCHANGED << search_tool, aliased, state, stages, result, runs >>
    /\ UNCHANGED searchVars

\* test_connections: from the return of test_llm(...) to the end
ProbeFinish ==
    /\ pc = "llm_done"
    /\ caller = "probe"
    /\ health' = Some([health[1] EXCEPT !.lm_studio = LMStudioFlag(llm_result)])
    /\ pc' = "probe_done"
    /\ caller' = "none"
    /\ UNCHANGED << llm, search_tool, aliased, state, stages, result, runs,
                    prompt, attempt, posted, sleeps, llm_result,
                    last_response >>
    /\ UNCHANGED searchVars

ProbeNext ==
    \/ \E k \in ProbeKeys, r \in SearchResponses : ProbeTavily(k, r)
    \/ \E args \in ConstructorArgs :
          ProbeLLMBegin(args.lm_studio_url, args.model_name)
    \/ \E r \in LLMResponses : LLMAttempt(r)
    \/ ProbeFinish

ProbeSpec == ProbeInit /\ [][ProbeNext]_vars

(***************************************************************************)
(* Two research_topic calls on one ResearchGraph, interleaved at stage and *)
(* network-call boundaries.  The calls share self.llm, self.search_tool    *)
(* and the compiled graph; everything else is a local of an invocation.    *)
(***************************************************************************)
RunIds == 1 .. 2
Other(r) == 3 - r

ConcTopics == { "solar sails", "tidal power" }

ConcLLMResponses ==
    { Response(200, "ok", ChatBody("Read first.")),
      Response(200, "{}", [error |-> "model not loaded"]) }

ConcSearchResponses ==
    { Response(200, "ok", [results |-> << >>]),
      Response(401, "Unauthorized: invalid API key", [none |-> TRUE]) }

\* the locals of an invocation that has not started
Idle ==
    [pc |-> "idle", state |-> None, attempt |-> 0, llm_result |-> NoResult,
     llm_log |-> << >>, idx |-> 0, all_results |-> << >>,
     successful_searches |-> 0, search_log |-> << >>, result |-> None]

graphVars == << pc, llm, search_tool, aliased, state, stages, result, health >>

\* one results list on the graph object, used by every invocation
Buffer_OnGraph(rs, r) == rs[1].all_results

\* the all_results list of invocation r: a local of its searcher stage
Buffer(rs, r) == rs[r].all_results

ConcInit ==
    /\ pc = "concurrent"
    /\ llm = Some(NewLLM("http://127.0.0.1:1234/v1", "google/gemma-3-1b",
                         GraphTimeout, MaxRetries))
    /\ search_tool = Some([api_key |-> "tvly-123"])
    /\ aliased \in BOOLEAN
    /\ state = None
    /\ stages = << >>
    /\ caller = "none"
    /\ prompt = ""
    /\ attempt = 0
    /\ posted = << >>
    /\ sleeps = << >>
    /\ llm_result = NoResult
    /\ last_response = None
    /\ search_queries = << >>
    /\ idx = 0
    /\ issued = << >>
    /\ all_results = << >>
    /\ successful_searches = 0
    /\ result = None
    /\ health = None
    /\ runs = [r \in RunIds |-> Idle]

\* research_topic of invocation r up to the first node
CStart(r, topic) ==
    /\ runs[r].pc = "idle"
    /\ runs' = [runs EXCEPT ![r].state = Some(InitialState(topic)),
                            ![r].pc = EntryPoint]
    /\ UNCHANGED << graphVars, callVars, searchVars >>

\* _research_planner_node of invocation r up to self.llm(prompt)
CPlannerBegin(r) ==
    /\ runs[r].pc = "research_planner"
    /\ runs' = [runs EXCEPT ![r].attempt = 0,
                            ![r].llm_result = NoResult,
                            ![r].pc = "llm_call"]
    /\ UNCHANGED << graphVars, callVars, searchVars >>

\* one iteration of the retry loop of _call inside invocation r
CLLMAttempt(r, resp) ==
    /\ runs[r].pc = "llm_call"
    /\ InRange(runs[r].attempt, Self.max_retries)
    /\ LET it == CallIteration(Self, runs[r].attempt, resp) IN
         runs' = [runs EXCEPT
                    ![r].llm_log = Append(@, resp),
                    ![r].llm_result = it.result,
                    ![r].attempt = IF it.result = NoResult THEN @ + 1 ELSE @,
                    ![r].pc = IF it.result = NoResult THEN "llm_call"
                              ELSE "llm_done"]
    /\ UNCHANGED << graphVars, callVars, searchVars >>

\* _research_planner_node of invocation r after self.llm(prompt)
CPlannerFinish(r) ==
    /\ runs[r].pc = "llm_done"
    /\ runs' = [runs EXCEPT
                  ![r].state = Some(ApplyWrites(@[1],
                                       PlannerNode(@[1], runs[r].llm_result))),
                  ![r].pc = NextNode("research_planner")]
    /\ UNCHANGED << graphVars, callVars, searchVars >>

\* _web_searcher_node of invocation r up to its loop
CSearcherBegin(r) ==
    /\ runs[r].pc = "web_searcher"
    /\ runs' = [runs EXCEPT ![r].idx = 0,
                            ![r].all_results = << >>,
                            ![r].successful_searches = 0,
                            ![r].pc = "searching"]
    /\ UNCHANGED << graphVars, callVars, searchVars >>

\* one iteration of the searcher's loop inside invocation r
CSearchQuery(r, resp) ==
    /\ runs[r].pc = "searching"
    /\ runs[r].idx < Len(SearchQueries(runs[r].state[1].topic))
    /\ LET n == runs[r].idx + 1
           query == SearchQueries(runs[r].state[1].topic)[n]
           run == TavilyRun(query, resp)
       IN runs' = [runs EXCEPT
                     ![r].search_log = Append(@, resp),
                     ![r].all_results = Append(Buffer(runs, r),
                                               SearchSection(n, query, run)),
                     ![r].successful_searches =
                         IF CountsAsSuccess(run) THEN @ + 1 ELSE @,
                     ![r].idx = @ + 1]
    /\ UNCHANGED << graphVars, callVars, searchVars >>

\* _web_searcher_node of invocation r after its loop
CSearcherFinish(r) ==
    /\ runs[r].pc = "searching"
    /\ runs[r].idx = Len(SearchQueries(runs[r].state[1].topic))
    /\ runs' = [runs EXCEPT
                  ![r].state = Some(ApplyWrites(@[1],
                                       SearcherNode(@[1], runs[r].all_results,
                                                    runs[r].successful_searches,
                                                    None))),
                  ![r].pc = NextNode("web_searcher")]
    /\ UNCHANGED << graphVars, callVars, searchVars >>

\* research_topic of invocation r returning the final state's fields
CReturn(r) ==
    /\ runs[r].pc = "END"
    /\ runs' = [runs EXCEPT
                  ![r].result = Some([research_plan |-> runs[r].state[1].research_plan,
                                      search_results |-> runs[r].state[1].search_results,
                                      error |-> runs[r].state[1].error]),
                  ![r].pc = "returned"]
    /\ UNCHANGED << graphVars, callVars, searchVars >>

ConcNext ==
    \E r \in RunIds :
       \/ \E topic \in ConcTopics : CStart(r, topic)
       \/ CPlannerBegin(r)
       \/ \E resp \in ConcLLMResponses : CLLMAttempt(r, resp)
       \/ CPlannerFinish(r)
       \/ CSearcherBegin(r)
       \/ \E resp \in ConcSearchResponses : CSearchQuery(r, resp)
       \/ CSearcherFinish(r)
       \/ CReturn(r)

ConcSpec == ConcInit /\ [][ConcNext]_vars

(***************************************************************************)
(* Properties                                                              *)
(***************************************************************************)
Returned == pc = "returned"
InCall == pc \in {"llm_call", "llm_done"}
CallEnded == pc = "llm_done"
\* the call ended with every attempt answered by something else than a 200
ExhaustedWithout200 ==
    /\ llm_result.kind = "return"
    /\ last_response # None
    /\ ~(last_response[1].kind = "response" /\ last_response[1].status = 200)

\* C1: whatever the two services do, the record research_topic returns has a
\* non-empty research_plan and a non-empty search_results
C1_OutputsNonEmpty ==
    Returned => /\ result[1].research_plan # ""
                /\ result[1].search_results # ""

\* C2: LMStudioLLM._call never raises; whatever each attempt meets, the call
\* ends by returning a string
C2_CallNeverRaises ==
    CallEnded => llm_result.kind = "return"

\* C3: one call of _call posts at most max_retries requests to the endpoint
C3_AtMostMaxRetriesRequests ==
    InCall => Len(posted) <= Self.max_retries

\* C3 witness: a call with three attempts, of which the first got a failure
\* status and the second a network failure, ended after its third request
C3_Witness ==
    /\ CallEnded
    /\ Self.max_retries = 3
    /\ Len(posted) = 3
    /\ sleeps = << 2 >>
    /\ ExhaustedWithout200

\* C4: after each failed attempt that is followed by another one the client
\* has slept 2^attempt, whichever kind of failure it was: at attempt number
\* n the sleeps so far are 1, 2, ..., 2^(n-1)
C4_BackoffAfterEveryFailure ==
    InCall => sleeps = [k \in 1..attempt |-> Pow2(k - 1)]

\* C5: when the client ran out of attempts without a 200, the plan of the
\* finished run is the fallback template, never the client's error string
C5_ExhaustedCallGivesFallbackPlan ==
    (Returned /\ ExhaustedWithout200)
        => /\ result[1].research_plan = FallbackPlan(St.topic)
           /\ result[1].research_plan # llm_result.value

HasPrefix(s, pre) == Len(s) >= Len(pre) /\ SubSeq(s, 1, Len(pre)) = pre
GraphEnded == pc \in {"END", "returned"}
BothStages == << "research_planner", "web_searcher" >>

\* the four variants the claim lists for a topic
ListedVariants(topic) ==
    << topic,
       topic \o " facts evidence 2024",
       topic \o " expert analysis",
       topic \o " recent research findings" >>

\* section n of the combined text carries the label of query q
Labelled(section, n, q) ==
    \/ HasPrefix(section, "### Search Query " \o ToString(n) \o ": '" \o q
                          \o "'\n")
    \/ HasPrefix(section, "**Search " \o ToString(n) \o "** for '" \o q
                          \o "' failed: ")

\* C6: the searcher calls the provider once per variant, in the listed
\* order, whatever the earlier calls did, and search_results is made of one
\* labelled section per variant in that order
C6_FourQueriesInOrder ==
    /\ pc = "searching" =>
          /\ Len(issued) = idx
          /\ Len(all_results) = idx
          /\ idx <= 4
          /\ \A k \in 1..idx : issued[k].query = ListedVariants(St.topic)[k]
    /\ GraphEnded =>
          /\ [k \in 1..Len(issued) |-> issued[k].query]
                = ListedVariants(St.topic)
          /\ Len(all_results) = 4
          /\ \A k \in 1..4 :
                Labelled(all_results[k], k, ListedVariants(St.topic)[k])
          /\ St.search_results =
                all_results[1] \o "\n" \o all_results[2] \o "\n"
                \o all_results[3] \o "\n" \o all_results[4]

\* C6 witness: a finished run whose first query came back error-marked,
\* whose second query raised and whose fourth query succeeded
C6_Witness ==
    /\ Returned
    /\ ~issued[1].formatted
    /\ HasPrefix(all_results[1], "### Search Query 1: ")
    /\ HasPrefix(all_results[2], "**Search 2** for ")
    /\ issued[4].formatted

\* C7: a run that has started reaches the end of the graph, and it does so
\* after the planner ran once and then the searcher ran once
C7_TwoStagesThenEnd ==
    /\ [](stages \in { << >>, << "research_planner" >>, BothStages })
    /\ [](GraphEnded => stages = BothStages)
    /\ (state # None) ~> GraphEnded

\* C7 witness: the graph ended after both stages in a run whose planner
\* recorded an error
C7_Witness ==
    /\ pc = "END"
    /\ St.error # None
    /\ stages = BothStages

\* C8: no exception reaches the caller of the facade; a failure to build
\* the state machine ends, like a failure to run it, in a record whose error
\* is set and whose two texts are the generic failure description
C8_NoExceptionCrossesFacade ==
    pc = "construct_raised" =>
        /\ result # None
        /\ result[1].error # None
        /\ result[1].research_plan = WorkflowError
        /\ result[1].search_results = WorkflowError

\* C9: the final state's messages are the human entry, the planner's
\* assistant entry and the searcher's assistant entry, and nothing else
C9_ThreeMessagesInOrder ==
    GraphEnded =>
        /\ Len(St.messages) = 3
        /\ St.messages[1] = HumanMessage("Research topic: " \o St.topic)
        /\ St.messages[2].role = "ai"
        /\ HasPrefix(St.messages[2].content, "Research plan created for: ")
        /\ St.messages[3].role = "ai"
        /\ HasPrefix(St.messages[3].content, "Completed ")

PlannerCaught ==
    /\ llm_result.kind = "raise"
    /\ pc \in {"web_searcher", "searching", "END", "returned"}
SearcherCaught ==
    /\ GraphEnded
    /\ St.error # None
    /\ HasPrefix(St.error[1], "Error in web searching: ")

\* C10: an exception caught by a stage does not end the run: after the
\* planner caught one, error is set, research_plan is the non-empty minimal
\* plan, and the run ends with the searcher executed and search_results
\* written; after the searcher caught one, error is set and search_results
\* is the non-empty placeholder
C10_StageExceptionDoesNotAbort ==
    /\ PlannerCaught =>
          /\ St.error = Some("Error in research planning: "
                             \o llm_result.value)
          /\ St.research_plan = "Basic research plan for: " \o St.topic
                                \o " (Error occurred in detailed planning)"
          /\ St.research_plan # ""
    /\ (PlannerCaught /\ GraphEnded) =>
          /\ stages = BothStages
          /\ Len(issued) = 4
          /\ St.search_results # ""
    /\ SearcherCaught =>
          /\ St.search_results = "Error occurred during search phase for: "
                                 \o St.topic
          /\ St.search_results # ""

\* C10 witness: a returned run whose planner caught the KeyError of a 200
\* body without choices and whose searcher then wrote its results
C10_Witness ==
    /\ Returned
    /\ llm_result = Raise("KeyError", "'choices'")
    /\ result[1].error # None
    /\ result[1].search_results # ""
    /\ stages = BothStages

\* C11: once error is set it stays set: no later step of the run puts it
\* back to None, and the returned record carries it
C11_ErrorStaysSet ==
    /\ [][(state # None /\ St.error # None)
            => (state' # None /\ state'[1].error # None)]_vars
    /\ [](Returned => result[1].error = St.error)

\* C11 witness: a returned run whose planner set error before the searcher
\* ran its four queries
C11_Witness ==
    /\ Returned
    /\ Len(issued) = 4
    /\ result[1].error # None
    /\ HasPrefix(result[1].error[1], "Error in research planning: ")

BeforePlannerEnd ==
    pc \in {"research_planner", "llm_call", "llm_done"}
BeforeSearcherEnd ==
    BeforePlannerEnd \/ pc \in {"web_searcher", "searching"}

\* C14: topic never changes; research_plan is empty until the step that
\* ends the planner and changes in no other step; search_results is empty
\* until the step that ends the searcher and changes in no other step; the
\* searcher leaves research_plan as it found it
C14_WriteDiscipline ==
    /\ [][(state # None /\ state' # None) =>
            /\ state'[1].topic = St.topic
            /\ state'[1].research_plan # St.research_plan
                  => (pc = "llm_done" /\ pc' = "web_searcher")
            /\ state'[1].search_results # St.search_results
                  => (pc = "searching" /\ pc' = "END")
            /\ pc \in {"web_searcher", "searching"}
                  => state'[1].research_plan = St.research_plan]_vars
    /\ []((state # None /\ BeforePlannerEnd) => St.research_plan = "")
    /\ []((state # None /\ BeforeSearcherEnd) => St.search_results = "")

\* C14 witness: a returned run with both texts written
C14_Witness ==
    /\ Returned
    /\ St.research_plan = "1. Ask what is known. 2. Read primary sources."
    /\ HasPrefix(St.search_results, "### Search Query 1: ")
    /\ St.topic = "quantum error correction"

\* the variants the provider answered with a 200 that _run formatted
Succeeded == { k \in 1..Len(issued) : issued[k].formatted }
\* the sections carrying an error mark
ErrorMarked ==
    { k \in 1..Len(all_results) :
        \/ HasPrefix(all_results[k], "**Search ")
        \/ Contains(all_results[k], "Error:") }

\* C15: the count in the searcher's message is the number of variants for
\* which the provider succeeded, and the error-marked sections are as many
\* as the variants that failed
C15_CountMatchesOutcomes ==
    GraphEnded =>
        /\ successful_searches = Cardinality(Succeeded)
        /\ St.messages[Len(St.messages)].content =
              "Completed 4 searches (" \o ToString(Cardinality(Succeeded))
              \o " successful) for: " \o St.topic
        /\ Cardinality(ErrorMarked) = 4 - Cardinality(Succeeded)

\* C16: next_step names the stage that runs next: the planner before the
\* planner ran, the searcher between the two stages, the terminal marker
\* at the end
C16_NextStepNamesNextStage ==
    /\ pc = "research_planner" => St.next_step = "research_planner"
    /\ pc \in {"web_searcher", "searching"} => St.next_step = "web_searcher"
    /\ GraphEnded => St.next_step = "complete"

\* the answer to the last request was a failure of the given class
LastFailed(cls) ==
    /\ last_response # None
    /\ last_response[1].kind = "exception"
    /\ last_response[1].exc = cls

\* C17: a call that ran out of attempts returns the string of the failure
\* category of its last attempt; the generic string is returned exactly when
\* max_retries is 0 and no request was made
C17_ErrorNamesLastFailure ==
    CallEnded =>
        /\ (ExhaustedWithout200 /\ last_response[1].kind = "response") =>
              llm_result.value = "Error: " \o ToString(last_response[1].status)
                                 \o " - " \o last_response[1].text
        /\ LastFailed("Timeout") =>
              HasPrefix(llm_result.value, "Error: Request timed out after ")
        /\ LastFailed("ConnectionError") =>
              HasPrefix(llm_result.value,
                        "Error: Cannot connect to LM Studio at ")
        /\ LastFailed("RequestException") =>
              llm_result.value = "Error connecting to LM Studio: "
                                 \o last_response[1].msg
        /\ (llm_result.value = "Error: All retry attempts failed")
              <=> (Self.max_retries = 0)
        /\ Self.max_retries = 0 => (posted = << >> /\ last_response = None)

\* C17 witness: three attempts, the first answered with a failure status,
\* the second with a network failure, the third refused; the call returned
\* the connection error string
C17_Witness ==
    /\ CallEnded
    /\ Self.max_retries = 3
    /\ Len(posted) = 3
    /\ sleeps = << 2 >>
    /\ LastFailed("ConnectionError")
    /\ HasPrefix(llm_result.value, "Error: Cannot connect to LM Studio at ")

\* the latest request was answered with a 200 carrying a message text
GotCompletion ==
    /\ last_response # None
    /\ last_response[1].kind = "response"
    /\ last_response[1].status = 200
    /\ ExtractContent(last_response[1].json).kind = "return"

\* C19: a 200 with a well-formed body ends the call with the body's message
\* text, and research_plan of the finished run is exactly that text,
\* whatever the text contains
C19_CompletionBecomesPlan ==
    /\ (InCall /\ GotCompletion) =>
          /\ CallEnded
          /\ llm_result =
                Return(last_response[1].json.choices[1].message.content)
    /\ (Returned /\ GotCompletion) =>
          result[1].research_plan =
              last_response[1].json.choices[1].message.content

ProbeDone == pc = "probe_done"

\* C13: each flag of test_connections is decided by its own probe: lm_studio
\* is false when every attempt of the completion probe failed, tavily is
\* false when the search probe failed, and neither probe changes the
\* other's flag
C13_FlagsFollowOwnProbe ==
    /\ [](ProbeDone /\ ExhaustedWithout200 => ~health[1].lm_studio)
    /\ [](ProbeDone /\ issued # << >> /\ ~issued[1].formatted
            => ~health[1].tavily)
    /\ [][(health # None /\ health' # None) =>
            /\ health'[1].tavily # health[1].tavily => pc = "probe_start"
            /\ health'[1].lm_studio # health[1].lm_studio
                  => pc = "llm_done"]_vars

(***************************************************************************)
(* Two invocations                                                         *)
(***************************************************************************)
\* what _call returns when the endpoint gives the answers of log in order:
\* the statement after the loop when the range is used up, NoResult while
\* the call waits for an answer log does not have
RECURSIVE AloneCall(_, _, _)
AloneCall(self, log, att) ==
    IF ~InRange(att, self.max_retries) THEN Return(AllFailed)
    ELSE IF att >= Len(log) THEN NoResult
    ELSE IF CallIteration(self, att, log[att + 1]).result = NoResult
         THEN AloneCall(self, log, att + 1)
         ELSE CallIteration(self, att, log[att + 1]).result

\* the entries the searcher's loop appends when the provider gives the
\* answers of log in order
AloneSections(topic, log) ==
    [n \in 1 .. Len(log) |->
        SearchSection(n, SearchQueries(topic)[n],
                      TavilyRun(SearchQueries(topic)[n], log[n]))]

AloneCount(topic, log) ==
    Cardinality({ n \in 1 .. Len(log) :
                    CountsAsSuccess(TavilyRun(SearchQueries(topic)[n], log[n])) })

\* the state after the planner of an invocation that runs alone
AlonePlanned(topic, llm_log) ==
    ApplyWrites(InitialState(topic),
                PlannerNode(InitialState(topic), AloneCall(Self, llm_log, 0)))

\* the state after the searcher of an invocation that runs alone
AloneSearched(topic, llm_log, search_log) ==
    LET planned == AlonePlanned(topic, llm_log) IN
      ApplyWrites(planned,
                  SearcherNode(planned, AloneSections(topic, search_log),
                               AloneCount(topic, search_log), None))

\* the state an invocation running alone holds at the position of run, given
\* the topic and the answers run has received
AloneState(run) ==
    IF run.pc \in { "research_planner", "llm_call", "llm_done" }
    THEN InitialState(run.state[1].topic)
    ELSE IF run.pc \in { "web_searcher", "searching" }
    THEN AlonePlanned(run.state[1].topic, run.llm_log)
    ELSE AloneSearched(run.state[1].topic, run.llm_log, run.search_log)

\* what research_topic returns from a final state
ResultOf(st) ==
    [research_plan |-> st.research_plan,
     search_results |-> st.search_results,
     error |-> st.error]

\* the topic t appears in nothing the invocation holds or has returned
NoTrace(run, t) ==
    /\ ~Contains(run.state[1].topic, t)
    /\ \A i \in DOMAIN run.state[1].messages :
          ~Contains(run.state[1].messages[i].content, t)
    /\ run.state[1].error # None => ~Contains(run.state[1].error[1], t)
    /\ \A i \in DOMAIN run.all_results : ~HasPrefix(run.all_results[i],
            "### Search Query " \o ToString(i) \o ": '" \o t)
    /\ run.pc = "returned" =>
          /\ ~Contains(run.result[1].research_plan, t)
          /\ ~Contains(run.result[1].search_results, t)

BothReturned == \A r \in DOMAIN runs : runs[r].pc = "returned"

SameInputs ==
    /\ runs[1].state[1].topic = runs[2].state[1].topic
    /\ runs[1].llm_log = runs[2].llm_log
    /\ runs[1].search_log = runs[2].search_log

C20_RunsDoNotInterfere ==
    \A r \in DOMAIN runs :
        (/\ runs[r].state # None
         /\ runs[Other(r)].state # None
         /\ runs[r].state[1].topic # runs[Other(r)].state[1].topic) =>
            /\ runs[r].state[1] = AloneState(runs[r])
            /\ runs[r].pc \in { "searching", "END", "returned" } =>
                  runs[r].all_results =
                      AloneSections(runs[r].state[1].topic, runs[r].search_log)
            /\ runs[r].pc = "returned" =>
                  runs[r].result = Some(ResultOf(runs[r].state[1]))
            /\ NoTrace(runs[r], runs[Other(r)].state[1].topic)

C20_Witness ==
    /\ runs # << >>
    /\ BothReturned
    /\ runs[1].state[1].topic # runs[2].state[1].topic
    /\ runs[1].result[1].error # None
    /\ runs[2].result[1].error = None
    /\ \A r \in DOMAIN runs :
          runs[r].result = Some(ResultOf(AloneState(runs[r])))
    /\ \E i \in DOMAIN runs[1].search_log :
          runs[1].search_log[i] # runs[2].search_log[i]

====
